---------------------------- MODULE Spec2Model ----------------------------
(***************************************************************************)
(* Model of the Figma screens export tool (src/index.js).                  *)
(*                                                                         *)
(* Strings are sequences of one-character strings, so that file names are  *)
(* built, sanitized and compared the way the script builds them.  A        *)
(* document is a forest of nodes 1..n: parent[i] < i is the node's parent  *)
(* (0 for a node of document.children) and the children of a node are in   *)
(* ascending order of their number.                                        *)
(***************************************************************************)
EXTENDS Integers, Sequences, FiniteSets, TLC

VARIABLES
  pc,                      \* position of main (or of the function applied)
  exitCode,                \* "none" while running, then the process exit code
  CONFIG,                  \* the configuration object (index.js 34-49)
  files,                   \* the file system: path |-> content
  files0,                  \* history: the files present before the run
  nodes,                   \* the argument of extractScreenNodes
  screenNodes,             \* its result
  idx,                     \* position of `node` in screenNodes (for .. of)
  fmt,                     \* position of `format` in CONFIG.imageFormats
  basePath,                \* arguments of the last getUniqueFilePath call
  extension,
  filePath,                \* and its result
  downloadedSuccessfully,
  outstanding,             \* the pending asynchronous operations
  failed,                  \* history: records with a "Failed to download" line
  noUrlRecs,               \* history: records that got no URL for any format
  urlGot,                  \* history: a URL was returned for the current record
  dlCalls,                 \* history: downloadImage calls for the current record
  attemptsFailed,          \* history: failed format attempts of the current record
  persisted,               \* history: the successful writes, in order
  allFirst,                \* history: every attempt so far succeeded
  anyRequest               \* history: a render or download request was issued

vars == <<pc, exitCode, CONFIG, files, files0, nodes, screenNodes, idx, fmt,
          basePath, extension, filePath, downloadedSuccessfully, outstanding,
          failed, noUrlRecs, urlGot, dlCalls, attemptsFailed, persisted,
          allFirst, anyRequest>>

(***************************************************************************)
(* Bounds of the model.                                                    *)
(***************************************************************************)
MaxNodes == 3
MaxRunNodes == 2
MaxSuffix == 2

(***************************************************************************)
(* Program constants.                                                      *)
(***************************************************************************)
SCREEN_WIDTH == 375
SCREEN_HEIGHT == 812
ApiDelay == 200
FormatDelay == 100

\* null and undefined: the empty tuple, comparable with every value they stand in for
Null == <<>>

(***************************************************************************)
(* Strings.                                                                *)
(***************************************************************************)
DigitChars == <<"0", "1", "2", "3", "4", "5", "6", "7", "8", "9">>

RECURSIVE NumToChars(_)
NumToChars(n) ==
  IF n < 10 THEN <<DigitChars[n + 1]>>
  ELSE NumToChars(n \div 10) \o <<DigitChars[(n % 10) + 1]>>

ReservedChars == {"/", "\\", "?", "%", "*", ":", "|", "\"", "<", ">"}

sanitizeFileName(name) ==
  [k \in 1..Len(name) |-> IF name[k] \in ReservedChars THEN "-" ELSE name[k]]

PNG == <<"p", "n", "g">>
SVG == <<"s", "v", "g">>

outputDir == <<".", "/", "exported-projects", "/", "planteria">>

ScreenPrefix == <<"s", "c", "r", "e", "e", "n", "-">>

Normalize(p) ==
  IF Len(p) >= 2 /\ p[1] = "." /\ p[2] = "/" THEN SubSeq(p, 3, Len(p)) ELSE p

PathJoin(dir, name) == Normalize(dir \o <<"/">> \o name)

(***************************************************************************)
(* Documents.                                                              *)
(***************************************************************************)
NoBox == <<>>

Box(w, h) == <<w, h>>

Width(b) == b[1]

Height(b) == b[2]

TargetBox == Box(SCREEN_WIDTH, SCREEN_HEIGHT)

FilterBoxes ==
  {NoBox, TargetBox, Box(SCREEN_WIDTH, SCREEN_HEIGHT + 1),
   Box(SCREEN_WIDTH + 1, SCREEN_HEIGHT)}

NodeTypes == {"FRAME", "GROUP"}

ParentMaps(n) == {p \in [1..n -> 0..n] : \A i \in 1..n : p[i] < i}

Docs(n, boxes, names) ==
  [parent : ParentMaps(n), type : [1..n -> NodeTypes],
   box : [1..n -> boxes], name : [1..n -> names]]

DocsUpTo(m, boxes, names) == UNION {Docs(n, boxes, names) : n \in 0..m}

SeqOfSet(S) ==
  LET RECURSIVE Build(_)
      Build(T) ==
        IF T = {} THEN <<>>
        ELSE LET x == CHOOSE y \in T : \A z \in T : y <= z
             IN  <<x>> \o Build(T \ {x})
  IN  Build(S)

Children(d, p) == SeqOfSet({i \in 1..Len(d.parent) : d.parent[i] = p})

TargetChoices == {Null, TargetBox}

(***************************************************************************)
(* extractScreenNodes (index.js 75-109).  targetDimensions is the field of *)
(* CONFIG the function reads.                                              *)
(***************************************************************************)
screenData(d, i) ==
  [id |-> i, name |-> d.name[i], type |-> d.type[i],
   absoluteBoundingBox |-> d.box[i]]

Selected(d, i, targetDimensions) ==
  IF targetDimensions # Null /\ d.box[i] # NoBox
  THEN Width(d.box[i]) = Width(targetDimensions)
       /\ Height(d.box[i]) = Height(targetDimensions)
  ELSE targetDimensions = Null

RECURSIVE traverse(_, _, _, _)
RECURSIVE forEachTraverse(_, _, _, _)

traverseShallow(d, i, targetDimensions, acc) ==
  IF d.type[i] = "FRAME" /\ Selected(d, i, targetDimensions)
  THEN Append(acc, screenData(d, i))
  ELSE forEachTraverse(d, Children(d, i), targetDimensions, acc)

traverse(d, i, targetDimensions, acc) ==
  LET acc1 == IF d.type[i] = "FRAME" /\ Selected(d, i, targetDimensions)
              THEN Append(acc, screenData(d, i))
              ELSE acc
  IN  forEachTraverse(d, Children(d, i), targetDimensions, acc1)

forEachTraverse(d, kids, targetDimensions, acc) ==
  IF kids = <<>> THEN acc
  ELSE forEachTraverse(d, Tail(kids), targetDimensions,
                       traverse(d, Head(kids), targetDimensions, acc))

extractScreenNodes(d, targetDimensions) ==
  forEachTraverse(d, Children(d, 0), targetDimensions, <<>>)

(***************************************************************************)
(* The file system and getUniqueFilePath (index.js 136-144).               *)
(***************************************************************************)
existsSync(p) == p \in DOMAIN files

writeFile(fs, p, data) ==
  [q \in (DOMAIN fs) \cup {p} |-> IF q = p THEN data ELSE fs[q]]

RECURSIVE uniqueLoop(_, _, _, _)
uniqueLoop(p, counter, base, ext) ==
  IF existsSync(p)
  THEN uniqueLoop(base \o <<"-">> \o NumToChars(counter) \o <<".">> \o ext,
                  counter + 1, base, ext)
  ELSE p

getUniqueFilePathNoCheck(base, ext) == base \o <<".">> \o ext

getUniqueFilePathSkip(base, ext) ==
  IF existsSync(base \o <<".">> \o ext)
  THEN uniqueLoop(base \o <<"-">> \o NumToChars(2) \o <<".">> \o ext, 3, base, ext)
  ELSE base \o <<".">> \o ext

getUniqueFilePathOnce(base, ext) ==
  IF existsSync(base \o <<".">> \o ext)
  THEN base \o <<"-">> \o NumToChars(1) \o <<".">> \o ext
  ELSE base \o <<".">> \o ext

getUniqueFilePath(base, ext) ==
  uniqueLoop(base \o <<".">> \o ext, 1, base, ext)


(***************************************************************************)
(* The run: main (index.js 172-240) between its suspension points.         *)
(***************************************************************************)
Op(kind, rec, f, arg) == [kind |-> kind, rec |-> rec, fmt |-> f, arg |-> arg]

FormatLists == {<<>>, <<PNG>>, <<PNG, SVG>>}

Configs ==
  [outputDir : {outputDir}, imageFormats : FormatLists,
   includeDimensions : BOOLEAN, apiDelay : {ApiDelay},
   targetDimensions : TargetChoices]

RunNames == {<<"a">>, <<"a", "/", "1">>}

RunDocs == DocsUpTo(MaxRunNodes, {NoBox, TargetBox}, RunNames)

Candidate(base, ext, n) ==
  IF n = 0 THEN base \o <<".">> \o ext
  ELSE base \o <<"-">> \o NumToChars(n) \o <<".">> \o ext

OldFiles(S) == [p \in S |-> "old"]

RunFileSets ==
  {OldFiles(S) : S \in SUBSET {Candidate(PathJoin(outputDir, ScreenPrefix \o <<"a">>),
                                         PNG, n) : n \in 0..1}}

Url(id, format) == <<"url", id, format>>

Image(id, format) == <<"image", id, format>>

fileName(node) ==
  LET name == ScreenPrefix \o sanitizeFileName(node.name)
  IN  IF CONFIG.includeDimensions /\ node.absoluteBoundingBox # NoBox
      THEN name \o <<"-">> \o NumToChars(Width(node.absoluteBoundingBox))
                \o <<"x">> \o NumToChars(Height(node.absoluteBoundingBox))
      ELSE name

InitIdle ==
  /\ exitCode = "none"
  /\ nodes = Null
  /\ screenNodes = <<>>
  /\ idx = 0
  /\ fmt = 0
  /\ basePath = <<>>
  /\ extension = <<>>
  /\ filePath = <<>>
  /\ downloadedSuccessfully = FALSE
  /\ outstanding = {}
  /\ failed = {}
  /\ noUrlRecs = {}
  /\ urlGot = FALSE
  /\ dlCalls = 0
  /\ attemptsFailed = 0
  /\ persisted = <<>>
  /\ allFirst = TRUE
  /\ anyRequest = FALSE

Init ==
  /\ pc = "start"
  /\ CONFIG \in Configs
  /\ files \in RunFileSets
  /\ files0 = files
  /\ InitIdle

\* main is called: fetchFigmaFile issues its request (index.js 174, 62)
Main ==
  /\ pc = "start"
  /\ pc' = "fetch"
  /\ outstanding' = {Op("fetchFigmaFile", 0, 0, 0)}
  /\ UNCHANGED <<exitCode, CONFIG, files, files0, nodes, screenNodes, idx, fmt,
                 basePath, extension, filePath, downloadedSuccessfully, failed, noUrlRecs,
                 urlGot, dlCalls, attemptsFailed, persisted, allFirst,
                 anyRequest>>

\* the request fails: process.exit(1) (index.js 68-71)
FetchFail ==
  /\ pc = "fetch"
  /\ pc' = "exited"
  /\ exitCode' = "1"
  /\ outstanding' = {}
  /\ UNCHANGED <<CONFIG, files, files0, nodes, screenNodes, idx, fmt, basePath,
                 extension, filePath, downloadedSuccessfully, failed, noUrlRecs, urlGot,
                 dlCalls, attemptsFailed, persisted, allFirst, anyRequest>>

\* The head of the record loop for record i (index.js 197-210): either the
\* first getImageUrl of the record is issued or, with no format configured,
\* the record ends at once (index.js 231-236).
StartRecord(i) ==
  /\ idx' = i
  /\ downloadedSuccessfully' = FALSE
  /\ urlGot' = FALSE
  /\ dlCalls' = 0
  /\ attemptsFailed' = 0
  /\ IF CONFIG.imageFormats = <<>>
     THEN /\ pc' = "delayNode"
          /\ fmt' = 0
          /\ failed' = failed \cup {i}
          /\ noUrlRecs' = noUrlRecs \cup {i}
          /\ allFirst' = FALSE
          /\ anyRequest' = anyRequest
          /\ outstanding' = {Op("delay", i, 0, CONFIG.apiDelay)}
     ELSE /\ pc' = "url"
          /\ fmt' = 1
          /\ failed' = failed
          /\ noUrlRecs' = noUrlRecs
          /\ allFirst' = allFirst
          /\ anyRequest' = TRUE
          /\ outstanding' = {Op("getImageUrl", i, 1, 0)}

\* Variant: the records are handed to forEach with an async callback, so
\* the first request of every record is issued at once.
FetchOkForEach ==
  /\ pc = "fetch"
  /\ \E d \in RunDocs :
       /\ screenNodes' = extractScreenNodes(d, CONFIG.targetDimensions)
       /\ IF Len(screenNodes') = 0
          THEN /\ pc' = "done"
               /\ exitCode' = "0"
               /\ outstanding' = {}
               /\ UNCHANGED <<idx, fmt, anyRequest>>
          ELSE /\ pc' = "url"
               /\ idx' = 1
               /\ fmt' = 1
               /\ anyRequest' = TRUE
               /\ outstanding' = {Op("getImageUrl", i, 1, 0) :
                                    i \in 1..Len(screenNodes')}
               /\ UNCHANGED exitCode
  /\ CONFIG.imageFormats # <<>>
  /\ UNCHANGED <<CONFIG, files, files0, nodes, basePath, extension, filePath,
                 persisted, downloadedSuccessfully, failed, noUrlRecs, urlGot,
                 dlCalls, attemptsFailed, allFirst>>

\* the document arrives (index.js 67, 175-210)
FetchOk ==
  /\ pc = "fetch"
  /\ \E d \in RunDocs :
       /\ screenNodes' = extractScreenNodes(d, CONFIG.targetDimensions)
       /\ IF Len(screenNodes') = 0
          THEN /\ pc' = "done"
               /\ exitCode' = "0"
               /\ outstanding' = {}
               /\ UNCHANGED <<idx, fmt, downloadedSuccessfully, failed, noUrlRecs, urlGot,
                              dlCalls, attemptsFailed, allFirst, anyRequest>>
          ELSE /\ StartRecord(1)
               /\ UNCHANGED exitCode
  /\ UNCHANGED <<CONFIG, files, files0, nodes, basePath, extension, filePath,
                 persisted>>

\* Variant: main calls downloadImage without testing the URL; downloadImage
\* returns false for an empty URL (index.js 115-118).
UrlReturnNoGuard ==
  /\ pc = "url"
  /\ \E url \in {Null, Url(screenNodes[idx].id, CONFIG.imageFormats[fmt])} :
       /\ basePath' = PathJoin(CONFIG.outputDir, fileName(screenNodes[idx]))
       /\ extension' = CONFIG.imageFormats[fmt]
       /\ filePath' = getUniqueFilePath(basePath', extension')
       /\ dlCalls' = dlCalls + 1
       /\ IF url # Null
          THEN /\ urlGot' = TRUE
               /\ pc' = "download"
               /\ outstanding' = {Op("downloadImage", idx, fmt, filePath')}
               /\ UNCHANGED <<attemptsFailed, allFirst>>
          ELSE /\ attemptsFailed' = attemptsFailed + 1
               /\ allFirst' = FALSE
               /\ pc' = "delayFmt"
               /\ outstanding' = {Op("delay", idx, fmt, FormatDelay)}
               /\ UNCHANGED urlGot
  /\ UNCHANGED <<exitCode, CONFIG, files, files0, nodes, screenNodes, idx, fmt,
                 downloadedSuccessfully, failed, noUrlRecs, persisted, anyRequest>>

\* Variant: getImageUrl lets the request's error escape, which ends the run.
UrlReturnThrow ==
  /\ pc = "url"
  /\ \E url \in {Null, Url(screenNodes[idx].id, CONFIG.imageFormats[fmt])} :
       IF url # Null
       THEN /\ basePath' = PathJoin(CONFIG.outputDir, fileName(screenNodes[idx]))
            /\ extension' = CONFIG.imageFormats[fmt]
            /\ filePath' = getUniqueFilePath(basePath', extension')
            /\ urlGot' = TRUE
            /\ dlCalls' = dlCalls + 1
            /\ pc' = "download"
            /\ outstanding' = {Op("downloadImage", idx, fmt, filePath')}
            /\ UNCHANGED <<attemptsFailed, allFirst, exitCode>>
       ELSE /\ attemptsFailed' = attemptsFailed + 1
            /\ allFirst' = FALSE
            /\ pc' = "exited"
            /\ exitCode' = "1"
            /\ outstanding' = {}
            /\ UNCHANGED <<basePath, extension, filePath, urlGot, dlCalls>>
  /\ UNCHANGED <<CONFIG, files, files0, nodes, screenNodes, idx, fmt,
                 downloadedSuccessfully, failed, noUrlRecs, persisted, anyRequest>>

\* Variant: without a URL the loop continues before the short delay.
UrlReturnNoDelay ==
  /\ pc = "url"
  /\ \E url \in {Null, Url(screenNodes[idx].id, CONFIG.imageFormats[fmt])} :
       IF url # Null
       THEN /\ basePath' = PathJoin(CONFIG.outputDir, fileName(screenNodes[idx]))
            /\ extension' = CONFIG.imageFormats[fmt]
            /\ filePath' = getUniqueFilePath(basePath', extension')
            /\ urlGot' = TRUE
            /\ dlCalls' = dlCalls + 1
            /\ pc' = "download"
            /\ outstanding' = {Op("downloadImage", idx, fmt, filePath')}
            /\ UNCHANGED <<attemptsFailed, allFirst, fmt, failed, noUrlRecs>>
       ELSE /\ attemptsFailed' = attemptsFailed + 1
            /\ allFirst' = FALSE
            /\ IF fmt < Len(CONFIG.imageFormats)
               THEN /\ fmt' = fmt + 1
                    /\ pc' = "url"
                    /\ outstanding' = {Op("getImageUrl", idx, fmt + 1, 0)}
                    /\ UNCHANGED <<failed, noUrlRecs>>
               ELSE /\ failed' = failed \cup {idx}
                    /\ noUrlRecs' = IF urlGot THEN noUrlRecs ELSE noUrlRecs \cup {idx}
                    /\ pc' = "delayNode"
                    /\ outstanding' = {Op("delay", idx, fmt, CONFIG.apiDelay)}
                    /\ UNCHANGED fmt
            /\ UNCHANGED <<basePath, extension, filePath, urlGot, dlCalls>>
  /\ UNCHANGED <<exitCode, CONFIG, files, files0, nodes, screenNodes, idx,
                 downloadedSuccessfully, persisted, anyRequest>>

\* getImageUrl returns (index.js 162 or 165); with a URL the file name is
\* built, a unique path chosen and downloadImage called (index.js 211-219),
\* without one the short delay starts (index.js 228).
UrlReturn ==
  /\ pc = "url"
  /\ \E url \in {Null, Url(screenNodes[idx].id, CONFIG.imageFormats[fmt])} :
       IF url # Null
       THEN /\ basePath' = PathJoin(CONFIG.outputDir, fileName(screenNodes[idx]))
            /\ extension' = CONFIG.imageFormats[fmt]
            /\ filePath' = getUniqueFilePath(basePath', extension')
            /\ urlGot' = TRUE
            /\ dlCalls' = dlCalls + 1
            /\ pc' = "download"
            /\ outstanding' = {Op("downloadImage", idx, fmt, filePath')}
            /\ UNCHANGED <<attemptsFailed, allFirst>>
       ELSE /\ attemptsFailed' = attemptsFailed + 1
            /\ allFirst' = FALSE
            /\ pc' = "delayFmt"
            /\ outstanding' = {Op("delay", idx, fmt, FormatDelay)}
            /\ UNCHANGED <<basePath, extension, filePath, urlGot, dlCalls>>
  /\ UNCHANGED <<exitCode, CONFIG, files, files0, nodes, screenNodes, idx, fmt,
                 downloadedSuccessfully, failed, noUrlRecs, persisted, anyRequest>>

\* Variant: no break after a successful download.
DownloadReturnNoBreak ==
  /\ pc = "download"
  /\ \E success \in BOOLEAN :
       /\ IF success
          THEN /\ files' = writeFile(files, filePath,
                                     Image(screenNodes[idx].id,
                                           CONFIG.imageFormats[fmt]))
               /\ downloadedSuccessfully' = TRUE
               /\ persisted' = Append(persisted,
                                      [rec |-> idx, fmt |-> fmt, path |-> filePath])
               /\ UNCHANGED <<attemptsFailed, allFirst>>
          ELSE /\ attemptsFailed' = attemptsFailed + 1
               /\ allFirst' = FALSE
               /\ UNCHANGED <<files, downloadedSuccessfully, persisted>>
       /\ pc' = "delayFmt"
       /\ outstanding' = {Op("delay", idx, fmt, FormatDelay)}
  /\ basePath' = <<>>
  /\ extension' = <<>>
  /\ filePath' = <<>>
  /\ UNCHANGED <<exitCode, CONFIG, files0, nodes, screenNodes, idx, fmt, failed,
                 noUrlRecs, urlGot, dlCalls, anyRequest>>

\* downloadImage returns (index.js 120-127): true after the write, and the
\* format loop is left for the delay between records (index.js 220-236);
\* false after a failed request or write, and the short delay starts.
\* The block that holds fileName and filePath is left either way.
DownloadReturn ==
  /\ pc = "download"
  /\ \E success \in BOOLEAN :
       IF success
       THEN /\ files' = writeFile(files, filePath,
                                  Image(screenNodes[idx].id, CONFIG.imageFormats[fmt]))
            /\ downloadedSuccessfully' = TRUE
            /\ persisted' = Append(persisted,
                                   [rec |-> idx, fmt |-> fmt, path |-> filePath])
            /\ pc' = "delayNode"
            /\ outstanding' = {Op("delay", idx, fmt, CONFIG.apiDelay)}
            /\ UNCHANGED <<attemptsFailed, allFirst>>
       ELSE /\ attemptsFailed' = attemptsFailed + 1
            /\ allFirst' = FALSE
            /\ pc' = "delayFmt"
            /\ outstanding' = {Op("delay", idx, fmt, FormatDelay)}
            /\ UNCHANGED <<files, downloadedSuccessfully, persisted>>
  /\ basePath' = <<>>
  /\ extension' = <<>>
  /\ filePath' = <<>>
  /\ UNCHANGED <<exitCode, CONFIG, files0, nodes, screenNodes, idx, fmt, failed,
                 noUrlRecs, urlGot, dlCalls, anyRequest>>

\* the short delay ends (index.js 228): the next format is tried or, after
\* the last one, the record ends (index.js 231-236)
DelayFmtDone ==
  /\ pc = "delayFmt"
  /\ IF fmt < Len(CONFIG.imageFormats)
     THEN /\ fmt' = fmt + 1
          /\ pc' = "url"
          /\ outstanding' = {Op("getImageUrl", idx, fmt + 1, 0)}
          /\ UNCHANGED <<failed, noUrlRecs>>
     ELSE /\ failed' = IF downloadedSuccessfully THEN failed ELSE failed \cup {idx}
          /\ noUrlRecs' = IF urlGot THEN noUrlRecs ELSE noUrlRecs \cup {idx}
          /\ pc' = "delayNode"
          /\ outstanding' = {Op("delay", idx, fmt, CONFIG.apiDelay)}
          /\ UNCHANGED fmt
  /\ UNCHANGED <<exitCode, CONFIG, files, files0, nodes, screenNodes, idx, basePath,
                 extension, filePath, downloadedSuccessfully, urlGot, dlCalls,
                 attemptsFailed, persisted, allFirst, anyRequest>>

\* Variant: the record loop stops one record early.
DelayNodeDoneSkipsLast ==
  /\ pc = "delayNode"
  /\ IF idx + 1 < Len(screenNodes)
     THEN /\ StartRecord(idx + 1)
          /\ UNCHANGED exitCode
     ELSE /\ pc' = "done"
          /\ exitCode' = "0"
          /\ outstanding' = {}
          /\ UNCHANGED <<idx, fmt, downloadedSuccessfully, failed, noUrlRecs, urlGot,
                         dlCalls, attemptsFailed, allFirst, anyRequest>>
  /\ UNCHANGED <<CONFIG, files, files0, nodes, screenNodes, basePath, extension,
                 filePath, persisted>>

\* the delay between records ends (index.js 236): the next record starts or
\* the run completes (index.js 239)
DelayNodeDone ==
  /\ pc = "delayNode"
  /\ IF idx < Len(screenNodes)
     THEN /\ StartRecord(idx + 1)
          /\ UNCHANGED exitCode
     ELSE /\ pc' = "done"
          /\ exitCode' = "0"
          /\ outstanding' = {}
          /\ UNCHANGED <<idx, fmt, downloadedSuccessfully, failed, noUrlRecs, urlGot, dlCalls,
                         attemptsFailed, allFirst, anyRequest>>
  /\ UNCHANGED <<CONFIG, files, files0, nodes, screenNodes, basePath, extension,
                 filePath, persisted>>

Next ==
  \/ Main
  \/ FetchFail
  \/ FetchOk
  \/ UrlReturn
  \/ DownloadReturn
  \/ DelayFmtDone
  \/ DelayNodeDone

Spec == Init /\ [][Next]_vars

\* Every request is answered and every timer fires.
SpecLive == Spec /\ WF_vars(Next)

(***************************************************************************)
(* extractScreenNodes applied to bounded documents.                        *)
(***************************************************************************)
FilterDocs == DocsUpTo(MaxNodes, FilterBoxes, {<<"a">>})

InitFilter ==
  /\ pc = "filter"
  /\ CONFIG \in [outputDir : {outputDir}, imageFormats : {<<PNG>>},
                 includeDimensions : {FALSE}, apiDelay : {ApiDelay},
                 targetDimensions : TargetChoices]
  /\ files = OldFiles({})
  /\ files0 = files
  /\ InitIdle

PickDocument ==
  /\ pc = "filter"
  /\ \E d \in FilterDocs : nodes' = d
  /\ pc' = "picked"
  /\ UNCHANGED <<exitCode, CONFIG, files, files0, screenNodes, idx, fmt, basePath,
                 extension, filePath, downloadedSuccessfully, outstanding, failed, noUrlRecs,
                 urlGot, dlCalls, attemptsFailed, persisted, allFirst, anyRequest>>

ApplyFilter ==
  /\ pc = "picked"
  /\ screenNodes' = extractScreenNodes(nodes, CONFIG.targetDimensions)
  /\ pc' = "filtered"
  /\ UNCHANGED <<exitCode, CONFIG, files, files0, nodes, idx, fmt, basePath,
                 extension, filePath, downloadedSuccessfully, outstanding, failed, noUrlRecs,
                 urlGot, dlCalls, attemptsFailed, persisted, allFirst, anyRequest>>

NextFilter == PickDocument \/ ApplyFilter

SpecFilter == InitFilter /\ [][NextFilter]_vars

(***************************************************************************)
(* getUniqueFilePath applied to bounded file systems.                      *)
(***************************************************************************)
UniqueBases ==
  {PathJoin(outputDir, ScreenPrefix \o n) : n \in {<<"a">>, <<"a", "-", "1">>}}

UniqueFileSets(ext) ==
  {OldFiles(S) : S \in SUBSET {Candidate(b, ext, n) :
                                 b \in UniqueBases, n \in 0..MaxSuffix}}

InitUnique ==
  /\ pc = "unique"
  /\ CONFIG \in [outputDir : {outputDir}, imageFormats : {<<PNG>>},
                 includeDimensions : {FALSE}, apiDelay : {ApiDelay},
                 targetDimensions : {Null}]
  /\ files = OldFiles({})
  /\ files0 = files
  /\ InitIdle

PickFiles ==
  /\ pc = "unique"
  /\ \E b \in UniqueBases, e \in {PNG, SVG} :
       /\ basePath' = b
       /\ extension' = e
       /\ \E fs \in UniqueFileSets(e) : files' = fs
  /\ files0' = files'
  /\ pc' = "chosen"
  /\ UNCHANGED <<exitCode, CONFIG, nodes, screenNodes, idx, fmt, filePath,
                 downloadedSuccessfully, outstanding, failed, noUrlRecs, urlGot, dlCalls,
                 attemptsFailed, persisted, allFirst, anyRequest>>

ApplyUnique ==
  /\ pc = "chosen"
  /\ filePath' = getUniqueFilePath(basePath, extension)
  /\ pc' = "resolved"
  /\ UNCHANGED <<exitCode, CONFIG, files, files0, nodes, screenNodes, idx, fmt,
                 basePath, extension, downloadedSuccessfully, outstanding, failed, noUrlRecs,
                 urlGot, dlCalls, attemptsFailed, persisted, allFirst, anyRequest>>

NextUnique == PickFiles \/ ApplyUnique

SpecUnique == InitUnique /\ [][NextUnique]_vars

(***************************************************************************)
(* Properties.                                                             *)
(***************************************************************************)
RECURSIVE RootPath(_, _)
RootPath(d, i) == IF i = 0 THEN <<>> ELSE Append(RootPath(d, d.parent[i]), i)

\* a comes before b in document order: a is an ancestor of b, or where their
\* paths from the root part, a's branch is the earlier sibling
DocBefore(d, a, b) ==
  LET pa == RootPath(d, a)
      pb == RootPath(d, b)
  IN  /\ a # b
      /\ \/ /\ Len(pa) < Len(pb)
            /\ SubSeq(pb, 1, Len(pa)) = pa
         \/ \E k \in 1..Len(pa) :
              /\ k <= Len(pb)
              /\ \A j \in 1..(k - 1) : pa[j] = pb[j]
              /\ pa[k] < pb[k]

Matching(d, i) ==
  /\ d.type[i] = "FRAME"
  /\ \/ CONFIG.targetDimensions = Null
     \/ /\ d.box[i] # NoBox
        /\ Width(d.box[i]) = Width(CONFIG.targetDimensions)
        /\ Height(d.box[i]) = Height(CONFIG.targetDimensions)

\* C1: extractScreenNodes returns exactly the FRAME nodes, at any depth, that
\* pass the dimension predicate (no target configured, or a bounding box equal
\* to the target), each once, in depth-first pre-order, each record carrying
\* its node's id, name and bounding box; a node without a bounding box is
\* never selected while a target is configured.
C1_FilterExact ==
  pc = "filtered" =>
    /\ {screenNodes[k].id : k \in 1..Len(screenNodes)}
         = {i \in 1..Len(nodes.parent) : Matching(nodes, i)}
    /\ \A k, l \in 1..Len(screenNodes) :
         k < l => DocBefore(nodes, screenNodes[k].id, screenNodes[l].id)
    /\ \A k \in 1..Len(screenNodes) :
         /\ screenNodes[k].type = "FRAME"
         /\ screenNodes[k].name = nodes.name[screenNodes[k].id]
         /\ screenNodes[k].absoluteBoundingBox = nodes.box[screenNodes[k].id]
         /\ CONFIG.targetDimensions # Null
              => screenNodes[k].absoluteBoundingBox # NoBox

\* a matching frame nested in a matching frame, a frame without a bounding
\* box, a target configured: both frames are selected, parent first
C1_Witness ==
  /\ pc = "filtered"
  /\ CONFIG.targetDimensions # Null
  /\ Len(screenNodes) = 2
  /\ nodes.parent[screenNodes[2].id] = screenNodes[1].id
  /\ \E i \in 1..Len(nodes.parent) : nodes.type[i] = "FRAME" /\ nodes.box[i] = NoBox

ScreenA == <<"exported-projects", "/", "planteria", "/",
             "s", "c", "r", "e", "e", "n", "-", "a">>

\* C5: getUniqueFilePath returns a path that does not exist, the first free
\* one of <base>.<ext>, <base>-1.<ext>, <base>-2.<ext>, ...; with only
\* <base>.<ext> present it is <base>-1.<ext>, with that one present too it is
\* <base>-2.<ext>.
C5_FirstFree ==
  pc = "resolved" =>
    /\ filePath \notin DOMAIN files
    /\ \E n \in 0..Cardinality(DOMAIN files) :
         /\ filePath = Candidate(basePath, extension, n)
         /\ \A m \in 0..(n - 1) : Candidate(basePath, extension, m) \in DOMAIN files
    /\ (basePath = ScreenA /\ extension = PNG
        /\ DOMAIN files = {ScreenA \o <<".", "p", "n", "g">>})
         => filePath = ScreenA \o <<"-", "1", ".", "p", "n", "g">>
    /\ (basePath = ScreenA /\ extension = PNG
        /\ DOMAIN files = {ScreenA \o <<".", "p", "n", "g">>,
                           ScreenA \o <<"-", "1", ".", "p", "n", "g">>})
         => filePath = ScreenA \o <<"-", "2", ".", "p", "n", "g">>

\* <base>.<ext> and <base>-1.<ext> exist and <base>-2.<ext> is returned
C5_Witness ==
  /\ pc = "resolved"
  /\ basePath = ScreenA
  /\ DOMAIN files = {ScreenA \o <<".", "p", "n", "g">>,
                     ScreenA \o <<"-", "1", ".", "p", "n", "g">>}
  /\ filePath = ScreenA \o <<"-", "2", ".", "p", "n", "g">>

PersistedRecs == {persisted[k].rec : k \in 1..Len(persisted)}

Issued == outstanding' \ outstanding

\* C2: a record for which getImageUrl returned no URL for any configured
\* format never had downloadImage called, is reported as failed and has no
\* file, and the run still handles every record after it: at the end each
\* record is either persisted or reported as failed.
C2_NoUrlNoDownload ==
  /\ noUrlRecs \subseteq failed
  /\ noUrlRecs \cap PersistedRecs = {}
  /\ (pc = "delayNode" /\ idx \in noUrlRecs) => dlCalls = 0
  /\ (pc \in {"download", "delayFmt"} /\ dlCalls > 0) => urlGot
  /\ pc = "done" =>
       /\ failed \cup PersistedRecs = 1..Len(screenNodes)
       /\ failed \cap PersistedRecs = {}

\* the first of two records got no URL for either of two formats, and the
\* second record was exported
C2_Witness ==
  /\ pc = "done"
  /\ Len(CONFIG.imageFormats) = 2
  /\ Len(screenNodes) = 2
  /\ noUrlRecs = {1}
  /\ PersistedRecs = {2}

\* C3: once a download succeeded for a record, no render-URL request and no
\* download is issued for that record any more; at most one file is persisted
\* per record, for the first format whose resolve and persist both succeeded
\* (every earlier format of the record was tried and failed).
C3_StopAfterSuccess ==
  /\ [](\A k, l \in 1..Len(persisted) :
          k # l => persisted[k].rec # persisted[l].rec)
  /\ [](downloadedSuccessfully =>
          /\ persisted # <<>>
          /\ persisted[Len(persisted)].rec = idx
          /\ persisted[Len(persisted)].fmt = attemptsFailed + 1)
  /\ [][downloadedSuccessfully =>
          \A o \in Issued :
            o.kind \in {"getImageUrl", "downloadImage"} => o.rec # idx]_vars

\* a record exported in its first format while a second format is configured
C3_Witness ==
  /\ pc = "delayNode"
  /\ downloadedSuccessfully
  /\ fmt = 1
  /\ Len(CONFIG.imageFormats) = 2

\* C4: when every resolve and every download succeeds on the first attempt,
\* the run persists exactly one file per record, in the order of the records,
\* under pairwise distinct paths, each holding the image of its record.
C4_OnePerRecord ==
  (pc = "done" /\ allFirst) =>
    /\ Len(persisted) = Len(screenNodes)
    /\ \A k \in 1..Len(persisted) :
         /\ persisted[k].rec = k
         /\ persisted[k].fmt = 1
         /\ persisted[k].path \in DOMAIN files
         /\ files[persisted[k].path]
              = Image(screenNodes[k].id, CONFIG.imageFormats[1])
    /\ \A k, l \in 1..Len(persisted) :
         k # l => persisted[k].path # persisted[l].path

\* two records with the same name, which sanitizing changes, and the same
\* dimensions, both exported at the first attempt
C4_Witness ==
  /\ pc = "done"
  /\ allFirst
  /\ Len(screenNodes) = 2
  /\ sanitizeFileName(screenNodes[1].name) = sanitizeFileName(screenNodes[2].name)
  /\ sanitizeFileName(screenNodes[1].name) # screenNodes[1].name
  /\ persisted[1].path # persisted[2].path
  /\ screenNodes[1].absoluteBoundingBox = screenNodes[2].absoluteBoundingBox

\* C6: a failed document fetch ends the run at once with exit code 1: nothing
\* is filtered, requested, downloaded or written; and exit code 1 arises in
\* no other way: once a render request was issued the run cannot end with it.
C6_FatalOnlyFetch ==
  /\ pc = "exited" =>
       /\ exitCode = "1"
       /\ screenNodes = <<>>
       /\ ~anyRequest
       /\ persisted = <<>>
       /\ files = files0
       /\ outstanding = {}
  /\ exitCode = "1" => (pc = "exited" /\ ~anyRequest /\ ~urlGot /\ dlCalls = 0)
  /\ exitCode # "none" => pc \in {"exited", "done"}

\* the fetch failed and the process exited with code 1
C6_Witness ==
  /\ pc = "exited"
  /\ exitCode = "1"
  /\ files0 # OldFiles({})

OpRank(o) == IF o.kind = "getImageUrl" THEN 1 ELSE IF o.kind = "downloadImage" THEN 2 ELSE 3

OpBefore(o, n) ==
  \/ o.rec < n.rec
  \/ o.rec = n.rec /\ o.fmt < n.fmt
  \/ o.rec = n.rec /\ o.fmt = n.fmt /\ OpRank(o) <= OpRank(n)

\* C7: at most one operation is outstanding at any instant; an operation is
\* issued only in the step that completes the one before it, and operations
\* follow the order of the records and, within a record, of the formats.
C7_Sequential ==
  /\ [](Cardinality(outstanding) <= 1)
  /\ [][\A n \in Issued :
          /\ outstanding' = {n}
          /\ \A o \in outstanding : OpBefore(o, n)]_vars

\* the download of the second format of the second record is outstanding
C7_Witness ==
  /\ pc = "download"
  /\ idx = 2
  /\ fmt = 2
  /\ outstanding = {Op("downloadImage", 2, 2, filePath)}

Running == {"url", "download", "delayFmt", "delayNode"}

\* C8: once the document has arrived the run reaches "done": with exit code
\* 0, nothing outstanding, every record either persisted or reported as
\* failed and, when no record was selected, without any request or write.
C8_Terminates ==
  /\ (pc \in Running) ~> (pc = "done")
  /\ [](pc = "done" =>
          /\ exitCode = "0"
          /\ outstanding = {}
          /\ idx = Len(screenNodes)
          /\ failed \cup PersistedRecs = 1..Len(screenNodes)
          /\ screenNodes = <<>> => (~anyRequest /\ files = files0))

\* a completed run over two records, one failed and one exported, with files
\* in the directory before the run
C8_Witness ==
  /\ pc = "done"
  /\ exitCode = "0"
  /\ Len(screenNodes) = 2
  /\ failed = {1}
  /\ PersistedRecs = {2}
  /\ files0 # OldFiles({})

\* C9: a render-URL request other than the first follows a completed delay:
\* the configured delay when it opens the next record, the fixed short delay
\* when it tries the next format; and a format attempt that did not succeed
\* is followed by the short delay.
C9_Delays ==
  /\ [][\A n \in Issued :
          n.kind = "getImageUrl" =>
            \/ pc = "fetch"
            \/ /\ n.rec = idx + 1
               /\ outstanding = {Op("delay", idx, fmt, CONFIG.apiDelay)}
            \/ /\ n.rec = idx
               /\ outstanding = {Op("delay", idx, fmt, FormatDelay)}]_vars
  /\ [][attemptsFailed' = attemptsFailed + 1 =>
          outstanding' = {Op("delay", idx, fmt, FormatDelay)}]_vars
  /\ [][(idx' # idx /\ idx >= 1) =>
          outstanding = {Op("delay", idx, fmt, CONFIG.apiDelay)}]_vars

\* the second format of the second record is requested after the first
\* record failed
C9_Witness ==
  /\ pc = "url"
  /\ idx = 2
  /\ fmt = 2
  /\ 1 \in failed

\* C10: no file is overwritten: the path given to downloadImage does not
\* exist, the files present before the run and the files persisted earlier
\* keep their content, and a failed download leaves the files as they were.
C10_NoOverwrite ==
  /\ [](pc = "download" => filePath \notin DOMAIN files)
  /\ [](\A p \in DOMAIN files0 : p \in DOMAIN files /\ files[p] = files0[p])
  /\ [](\A k \in 1..Len(persisted) :
          /\ persisted[k].path \in DOMAIN files
          /\ files[persisted[k].path]
               = Image(screenNodes[persisted[k].rec].id,
                       CONFIG.imageFormats[persisted[k].fmt]))
  /\ [][(pc = "download" /\ ~downloadedSuccessfully') => files' = files]_vars

\* two files written beside two older ones, after a failed download
C10_Witness ==
  /\ pc = "done"
  /\ Cardinality(DOMAIN files0) = 2
  /\ Len(persisted) = 2
  /\ Cardinality(DOMAIN files) = 4
  /\ failed = {}
  /\ ~allFirst

=============================================================================
